---- MODULE Spec2Model ----
(***************************************************************************)
(* Model of src/ripple/rpc/impl/RPCHandler.cpp: the admission gate         *)
(* (fillHandler), the invocation wrapper (callMethod), the result envelope *)
(* builder (getResult), the dispatcher (doCommand) and roleRequired.       *)
(***************************************************************************)
EXTENDS Integers, Sequences, FiniteSets, TLC

\* ------------------------------------------------------------------------
\* Bounds of the model
\* ------------------------------------------------------------------------
NumProcs == 2
MaxRequests == 2

Procs == 1..NumProcs

\* ------------------------------------------------------------------------
\* Json::Value: every value is [kind, str, mem]; mem maps member names to
\* values for objects and is empty otherwise.
\* ------------------------------------------------------------------------
NoMembers == [k \in {} |-> ""]

JsonString(s) == [kind |-> "string", str |-> s, mem |-> NoMembers]

JsonObject(m) == [kind |-> "object", str |-> "", mem |-> m]

JsonNull == [kind |-> "null", str |-> "", mem |-> NoMembers]

objectValue == JsonObject(NoMembers)

isObject(v) == v.kind = "object"

isMember(v, key) == v.kind = "object" /\ key \in DOMAIN v.mem

asString(v) == v.str

\* v[key] = x  (a null value becomes an object on first assignment)
setMember(v, key, x) ==
    JsonObject([k \in (DOMAIN v.mem) \cup {key} |->
                   IF k = key THEN x ELSE v.mem[k]])

\* ------------------------------------------------------------------------
\* Error codes and inject_error
\* ------------------------------------------------------------------------
rpcSUCCESS == "rpcSUCCESS"
rpcTOO_BUSY == "rpcTOO_BUSY"
rpcCOMMAND_MISSING == "rpcCOMMAND_MISSING"
rpcUNKNOWN_COMMAND == "rpcUNKNOWN_COMMAND"
rpcNO_PERMISSION == "rpcNO_PERMISSION"
rpcNO_NETWORK == "rpcNO_NETWORK"
rpcAMENDMENT_BLOCKED == "rpcAMENDMENT_BLOCKED"
rpcNO_CURRENT == "rpcNO_CURRENT"
rpcNO_CLOSED == "rpcNO_CLOSED"
rpcINTERNAL == "rpcINTERNAL"
rpcINVALID_PARAMS == "rpcINVALID_PARAMS"

ErrorToken(code) ==
    CASE code = rpcTOO_BUSY -> "tooBusy"
      [] code = rpcCOMMAND_MISSING -> "commandMissing"
      [] code = rpcUNKNOWN_COMMAND -> "unknownCmd"
      [] code = rpcNO_PERMISSION -> "noPermission"
      [] code = rpcNO_NETWORK -> "noNetwork"
      [] code = rpcAMENDMENT_BLOCKED -> "amendmentBlocked"
      [] code = rpcNO_CURRENT -> "noCurrent"
      [] code = rpcNO_CLOSED -> "noClosed"
      [] code = rpcINTERNAL -> "internal"
      [] code = rpcINVALID_PARAMS -> "invalidParams"
      [] OTHER -> "unknown"

ErrorMessage(code) ==
    CASE code = rpcTOO_BUSY -> "The server is too busy to help you now."
      [] code = rpcCOMMAND_MISSING -> "Missing command entry."
      [] code = rpcUNKNOWN_COMMAND -> "Unknown method."
      [] code = rpcNO_PERMISSION -> "You don't have permission for this command."
      [] code = rpcNO_NETWORK -> "Not synced to Ripple network."
      [] code = rpcAMENDMENT_BLOCKED -> "Amendment blocked, need upgrade."
      [] code = rpcNO_CURRENT -> "Current ledger is unavailable."
      [] code = rpcNO_CLOSED -> "Closed ledger is unavailable."
      [] code = rpcINTERNAL -> "Internal error."
      [] code = rpcINVALID_PARAMS -> "Invalid parameters."
      [] OTHER -> "unknown"

\* inject_error (code, json): writes the error token, code and message
inject_error(code, json) ==
    setMember(setMember(setMember(json,
        "error", JsonString(ErrorToken(code))),
        "error_code", JsonString(code)),
        "error_message", JsonString(ErrorMessage(code)))

\* Status::operator bool: true when the status is an error
IsError(status) == status # rpcSUCCESS

\* ------------------------------------------------------------------------
\* Roles
\* ------------------------------------------------------------------------
Roles == {"GUEST", "USER", "IDENTIFIED", "ADMIN"}

isUnlimited(role) == role = "ADMIN" \/ role = "IDENTIFIED"

\* ------------------------------------------------------------------------
\* Tuning constants and operating modes
\* ------------------------------------------------------------------------
maxJobQueueClients == 500
maxValidatedLedgerAge == 120
omCONNECTED == 1
omSYNCING == 2

\* ------------------------------------------------------------------------
\* LedgerIndex is a 32-bit unsigned integer, held as <<high half, low half>>
\* ------------------------------------------------------------------------
Half == 65536

U32Less(a, b) == a[1] < b[1] \/ (a[1] = b[1] /\ a[2] < b[2])

\* cID + 10 in 32-bit unsigned arithmetic (the sum wraps modulo 2^32)
U32Add10(a) ==
    LET s == a[2] + 10
    IN  <<(a[1] + (s \div Half)) % Half, s % Half>>

\* variant: the tolerance doubled (cID + 20 < vID)
LedgerLags_DoubleTolerance(cID, vID) == U32Less(U32Add10(U32Add10(cID)), vID)

\* cID + 10 < vID as the code evaluates it
LedgerLags(cID, vID) == U32Less(U32Add10(cID), vID)

\* ------------------------------------------------------------------------
\* Handler registry
\* ------------------------------------------------------------------------
NEEDS_NETWORK_CONNECTION == "NEEDS_NETWORK_CONNECTION"
NEEDS_CURRENT_LEDGER == "NEEDS_CURRENT_LEDGER"
NEEDS_CLOSED_LEDGER == "NEEDS_CLOSED_LEDGER"

NullHandler == "nullptr"

HandlerDesc(role, cond, hasMethod) ==
    [role_ |-> role, condition_ |-> cond, valueMethod_ |-> hasMethod]

Registry ==
    [h_none       |-> HandlerDesc("USER", {}, TRUE),
     h_net        |-> HandlerDesc("USER", {NEEDS_NETWORK_CONNECTION}, TRUE),
     h_cur        |-> HandlerDesc("USER", {NEEDS_CURRENT_LEDGER}, TRUE),
     h_closed     |-> HandlerDesc("USER", {NEEDS_CLOSED_LEDGER}, TRUE),
     h_net_cur    |-> HandlerDesc("USER",
                         {NEEDS_NETWORK_CONNECTION, NEEDS_CURRENT_LEDGER}, TRUE),
     h_net_closed |-> HandlerDesc("USER",
                         {NEEDS_NETWORK_CONNECTION, NEEDS_CLOSED_LEDGER}, TRUE),
     h_cur_closed |-> HandlerDesc("USER",
                         {NEEDS_CURRENT_LEDGER, NEEDS_CLOSED_LEDGER}, TRUE),
     h_all        |-> HandlerDesc("USER",
                         {NEEDS_NETWORK_CONNECTION, NEEDS_CURRENT_LEDGER,
                          NEEDS_CLOSED_LEDGER}, TRUE),
     adm_none     |-> HandlerDesc("ADMIN", {}, TRUE),
     adm_all      |-> HandlerDesc("ADMIN",
                         {NEEDS_NETWORK_CONNECTION, NEEDS_CURRENT_LEDGER,
                          NEEDS_CLOSED_LEDGER}, TRUE),
     novalue      |-> HandlerDesc("USER", {}, FALSE)]

HandlerNames == DOMAIN Registry

\* getHandler (name): the handler registered under the name, or nullptr
getHandler(name) == IF name \in HandlerNames THEN name ELSE NullHandler

\* ------------------------------------------------------------------------
\* State
\* ------------------------------------------------------------------------
VARIABLES
    node,        \* answers of the collaborators (job queue, NetworkOPs,
                 \* LedgerMaster, Config) as fillHandler reads them
    context,     \* per request: role, params, loadType
    pc,          \* per request: position in doCommand/getResult/callMethod
    caller,      \* per request: which function entered callMethod
    handler,     \* per request: the Handler const* filled by fillHandler
    gate,        \* per request: the error_code_i returned by fillHandler
    result,      \* per request: the output object callMethod writes to
    ret,         \* per request: the Status returned to the caller
    curId,       \* per request: callMethod's curId
    requestId,   \* static std::atomic<std::uint64_t> requestId
    perfLog,     \* PerfLog: per request id, the name and the notifications
    loadEvent,   \* per request: callMethod holds the LoadEvent `v`
    invoked,     \* per request: what the handler method was given and wrote
    nreq,        \* number of requests begun
    queried,     \* per request: the collaborator getters fillHandler
                 \* called, in call order
    asked        \* the latest roleRequired call: its argument, the Role
                 \* returned and the number of calls so far

vars == <<node, context, pc, caller, handler, gate, result, ret, curId,
          requestId, perfLog, loadEvent, invoked, nreq, queried, asked>>

RequestIds == 1..MaxRequests

NoEvents == [i \in RequestIds |-> <<>>]

NoStatus == "none"
NoContext == [role |-> "GUEST", params |-> JsonNull, loadType |-> "feeReferenceRPC"]
NotInvoked ==
    [calls |-> 0, wrote |-> objectValue, outcome |-> "none", status |-> NoStatus]
NotAsked == [method |-> "", role |-> "none", calls |-> 0]

\* ------------------------------------------------------------------------
\* fillHandler (context, result): the admission gate
\* ------------------------------------------------------------------------
\* std::string strCommand: the command field if present, else the method field
strCommand(params) ==
    IF isMember(params, "command")
    THEN asString(params.mem["command"])
    ELSE asString(params.mem["method"])

Gate(error, h) == [error |-> error, result |-> h]

\* variant: sheds already at the threshold (>= for >)
loadShed_AtThreshold(ctx, n) ==
    ~isUnlimited(ctx.role) /\ n.jobCount >= maxJobQueueClients

\* the load-shedding test: a role that is not unlimited and more pending
\* client jobs than Tuning::maxJobQueueClients
loadShed(ctx, n) ==
    ~isUnlimited(ctx.role) /\ n.jobCount > maxJobQueueClients

\* variant: the two fields are never compared; the command field wins
commandError_IgnoresMethod(params) ==
    IF ~isMember(params, "command") /\ ~isMember(params, "method")
    THEN rpcCOMMAND_MISSING
    ELSE rpcSUCCESS

\* variant: a request without a command name is reported as naming an
\* unknown one
commandError_MissingIsUnknown(params) ==
    IF ~isMember(params, "command") /\ ~isMember(params, "method")
    THEN rpcUNKNOWN_COMMAND
    ELSE IF /\ isMember(params, "command")
            /\ isMember(params, "method")
            /\ asString(params.mem["command"]) # asString(params.mem["method"])
    THEN rpcUNKNOWN_COMMAND
    ELSE rpcSUCCESS

\* the command extraction tests: rpcSUCCESS when a command name is carried
commandError(params) ==
    IF ~isMember(params, "command") /\ ~isMember(params, "method")
    THEN rpcCOMMAND_MISSING
    ELSE IF /\ isMember(params, "command")
            /\ isMember(params, "method")
            /\ asString(params.mem["command"]) # asString(params.mem["method"])
    THEN rpcUNKNOWN_COMMAND
    ELSE rpcSUCCESS

\* variant: the network test placed before the role test
handlerChecks_NetworkFirst(ctx, n, h, result0) ==
    IF /\ NEEDS_NETWORK_CONNECTION \in Registry[h].condition_
       /\ n.operatingMode < omSYNCING
    THEN Gate(rpcNO_NETWORK, result0)
    ELSE IF Registry[h].role_ = "ADMIN" /\ ctx.role # "ADMIN"
    THEN Gate(rpcNO_PERMISSION, result0)
    ELSE IF /\ n.amendmentBlocked
            /\ (\/ NEEDS_CURRENT_LEDGER \in Registry[h].condition_
                \/ NEEDS_CLOSED_LEDGER \in Registry[h].condition_)
    THEN Gate(rpcAMENDMENT_BLOCKED, result0)
    ELSE IF /\ ~n.standalone
            /\ NEEDS_CURRENT_LEDGER \in Registry[h].condition_
            /\ (\/ n.validatedLedgerAge > maxValidatedLedgerAge
                \/ LedgerLags(n.currentLedgerIndex, n.validLedgerIndex))
    THEN Gate(rpcNO_CURRENT, result0)
    ELSE IF /\ NEEDS_CLOSED_LEDGER \in Registry[h].condition_
            /\ ~n.closedLedger
    THEN Gate(rpcNO_CLOSED, result0)
    ELSE Gate(rpcSUCCESS, h)

\* variant: every unlimited role passes the role test
handlerChecks_UnlimitedPasses(ctx, n, h, result0) ==
    IF Registry[h].role_ = "ADMIN" /\ ~isUnlimited(ctx.role)
    THEN Gate(rpcNO_PERMISSION, result0)
    ELSE IF /\ NEEDS_NETWORK_CONNECTION \in Registry[h].condition_
            /\ n.operatingMode < omSYNCING
    THEN Gate(rpcNO_NETWORK, result0)
    ELSE IF /\ n.amendmentBlocked
            /\ (\/ NEEDS_CURRENT_LEDGER \in Registry[h].condition_
                \/ NEEDS_CLOSED_LEDGER \in Registry[h].condition_)
    THEN Gate(rpcAMENDMENT_BLOCKED, result0)
    ELSE IF /\ ~n.standalone
            /\ NEEDS_CURRENT_LEDGER \in Registry[h].condition_
            /\ (\/ n.validatedLedgerAge > maxValidatedLedgerAge
                \/ LedgerLags(n.currentLedgerIndex, n.validLedgerIndex))
    THEN Gate(rpcNO_CURRENT, result0)
    ELSE IF /\ NEEDS_CLOSED_LEDGER \in Registry[h].condition_
            /\ ~n.closedLedger
    THEN Gate(rpcNO_CLOSED, result0)
    ELSE Gate(rpcSUCCESS, h)

\* the tests that follow a successful lookup of handler h
handlerChecks(ctx, n, h, result0) ==
    IF Registry[h].role_ = "ADMIN" /\ ctx.role # "ADMIN"
    THEN Gate(rpcNO_PERMISSION, result0)
    ELSE IF /\ NEEDS_NETWORK_CONNECTION \in Registry[h].condition_
            /\ n.operatingMode < omSYNCING
    THEN Gate(rpcNO_NETWORK, result0)
    ELSE IF /\ n.amendmentBlocked
            /\ (\/ NEEDS_CURRENT_LEDGER \in Registry[h].condition_
                \/ NEEDS_CLOSED_LEDGER \in Registry[h].condition_)
    THEN Gate(rpcAMENDMENT_BLOCKED, result0)
    ELSE IF /\ ~n.standalone
            /\ NEEDS_CURRENT_LEDGER \in Registry[h].condition_
            /\ (\/ n.validatedLedgerAge > maxValidatedLedgerAge
                \/ LedgerLags(n.currentLedgerIndex, n.validLedgerIndex))
    THEN Gate(rpcNO_CURRENT, result0)
    ELSE IF /\ NEEDS_CLOSED_LEDGER \in Registry[h].condition_
            /\ ~n.closedLedger
    THEN Gate(rpcNO_CLOSED, result0)
    ELSE Gate(rpcSUCCESS, h)

fillHandler(ctx, n, result0) ==
    IF loadShed(ctx, n)
    THEN Gate(rpcTOO_BUSY, result0)
    ELSE IF commandError(ctx.params) # rpcSUCCESS
    THEN Gate(commandError(ctx.params), result0)
    ELSE LET h == getHandler(strCommand(ctx.params))
         IN IF h = NullHandler
            THEN Gate(rpcUNKNOWN_COMMAND, result0)
            ELSE handlerChecks(ctx, n, h, result0)

\* ------------------------------------------------------------------------
\* The collaborator getters fillHandler calls, in call order.  The second
\* operand of && is not evaluated when the first is false.
\* ------------------------------------------------------------------------
\* variant: the ledger indices are fetched before the role test
handlerQueries_IndicesHoisted(ctx, n, h) ==
    LET cond == Registry[h].condition_
        fresh == ~n.standalone /\ NEEDS_CURRENT_LEDGER \in cond
        qIds == <<"getCurrentLedgerIndex", "getValidLedgerIndex">>
        qNet == qIds \o (IF NEEDS_NETWORK_CONNECTION \in cond
                         THEN <<"getOperatingMode">> ELSE <<>>)
        qAmd == qNet \o <<"isAmendmentBlocked">>
        qStd == qAmd \o <<"standalone">>
        qAge == qStd \o <<"getValidatedLedgerAge">>
        qEnd == IF fresh THEN qAge ELSE qStd
    IN  IF Registry[h].role_ = "ADMIN" /\ ctx.role # "ADMIN"
        THEN qIds
        ELSE IF /\ NEEDS_NETWORK_CONNECTION \in cond
                /\ n.operatingMode < omSYNCING
        THEN qNet \o <<"strOperatingMode">>
        ELSE IF /\ n.amendmentBlocked
                /\ cond \cap {NEEDS_CURRENT_LEDGER, NEEDS_CLOSED_LEDGER} # {}
        THEN qAmd
        ELSE IF fresh /\ n.validatedLedgerAge > maxValidatedLedgerAge
        THEN qAge
        ELSE IF NEEDS_CLOSED_LEDGER \in cond
        THEN qEnd \o <<"getClosedLedger">>
        ELSE qEnd

\* the getters called by the tests that follow a successful lookup
handlerQueries(ctx, n, h) ==
    LET cond == Registry[h].condition_
        fresh == ~n.standalone /\ NEEDS_CURRENT_LEDGER \in cond
        qNet == IF NEEDS_NETWORK_CONNECTION \in cond
                THEN <<"getOperatingMode">> ELSE <<>>
        qAmd == qNet \o <<"isAmendmentBlocked">>
        qStd == qAmd \o <<"standalone">>
        qAge == qStd \o <<"getValidatedLedgerAge">>
        qIds == qAge \o <<"getCurrentLedgerIndex", "getValidLedgerIndex">>
        qEnd == IF fresh THEN qIds ELSE qStd
    IN  IF Registry[h].role_ = "ADMIN" /\ ctx.role # "ADMIN"
        THEN <<>>
        ELSE IF /\ NEEDS_NETWORK_CONNECTION \in cond
                /\ n.operatingMode < omSYNCING
        THEN qNet \o <<"strOperatingMode">>
        ELSE IF /\ n.amendmentBlocked
                /\ cond \cap {NEEDS_CURRENT_LEDGER, NEEDS_CLOSED_LEDGER} # {}
        THEN qAmd
        ELSE IF fresh /\ n.validatedLedgerAge > maxValidatedLedgerAge
        THEN qAge
        ELSE IF fresh /\ LedgerLags(n.currentLedgerIndex, n.validLedgerIndex)
        THEN qIds
        ELSE IF NEEDS_CLOSED_LEDGER \in cond
        THEN qEnd \o <<"getClosedLedger">>
        ELSE qEnd

\* the getters called by fillHandler as a whole
gateQueries(ctx, n) ==
    LET qJob == IF isUnlimited(ctx.role) THEN <<>> ELSE <<"getJobCountGE">>
        qReg == qJob \o <<"getHandler">>
    IN  IF loadShed(ctx, n) \/ commandError(ctx.params) # rpcSUCCESS
        THEN qJob
        ELSE LET h == getHandler(strCommand(ctx.params))
             IN IF h = NullHandler
                THEN qReg
                ELSE qReg \o handlerQueries(ctx, n, h)

\* ------------------------------------------------------------------------
\* Inputs of the admission gate
\* ------------------------------------------------------------------------
JobCounts == {maxJobQueueClients, maxJobQueueClients + 1}
OperatingModes == {omCONNECTED, omSYNCING}
LedgerAges == {maxValidatedLedgerAge, maxValidatedLedgerAge + 1}
CurrentIndices == {<<0, 0>>, <<Half - 1, Half - 5>>}
ValidIndices == {<<0, 10>>, <<0, 11>>, <<Half - 1, Half - 1>>}

Nodes ==
    [jobCount : JobCounts, operatingMode : OperatingModes,
     amendmentBlocked : BOOLEAN, standalone : BOOLEAN,
     validatedLedgerAge : LedgerAges,
     currentLedgerIndex : CurrentIndices, validLedgerIndex : ValidIndices,
     closedLedger : BOOLEAN]

HealthyNode ==
    [jobCount |-> maxJobQueueClients, operatingMode |-> omSYNCING,
     amendmentBlocked |-> FALSE, standalone |-> FALSE,
     validatedLedgerAge |-> maxValidatedLedgerAge,
     currentLedgerIndex |-> <<0, 0>>, validLedgerIndex |-> <<0, 10>>,
     closedLedger |-> TRUE]

Absent == "<absent>"
CommandNames == HandlerNames \cup {"nope", Absent}
MethodNames == {"h_none", "adm_all", "nope", Absent}

\* the request parameters carrying the given command and method fields
CommandParams(c, m) ==
    JsonObject([k \in {x \in {"command", "method"} :
                         (x = "command" /\ c # Absent) \/ (x = "method" /\ m # Absent)}
                  |-> JsonString(IF k = "command" THEN c ELSE m)])

GateParams ==
    {CommandParams(c, m) : c \in CommandNames, m \in MethodNames} \cup {JsonNull}

GateContexts ==
    [role : Roles, params : GateParams, loadType : {"feeReferenceRPC"}]

\* ------------------------------------------------------------------------
\* The gate on its own: Init draws the request and the node, the action
\* applies fillHandler to them.
\* ------------------------------------------------------------------------
\* the request the gate is applied to
GateProc == CHOOSE p \in Procs : \A q \in Procs : p <= q

InitIdle ==
    /\ pc = [p \in Procs |-> "idle"]
    /\ caller = [p \in Procs |-> "none"]
    /\ handler = [p \in Procs |-> NullHandler]
    /\ gate = [p \in Procs |-> NoStatus]
    /\ result = [p \in Procs |-> objectValue]
    /\ ret = [p \in Procs |-> NoStatus]
    /\ curId = [p \in Procs |-> 0]
    /\ requestId = 0
    /\ perfLog = NoEvents
    /\ loadEvent = [p \in Procs |-> FALSE]
    /\ invoked = [p \in Procs |-> NotInvoked]
    /\ nreq = 0
    /\ queried = [p \in Procs |-> <<>>]
    /\ asked = NotAsked

InitGate ==
    /\ InitIdle
    /\ node \in Nodes
    /\ \E c \in GateContexts :
          context = [p \in Procs |-> IF p = GateProc THEN c ELSE NoContext]

FillHandlerCall(p) ==
    /\ p = GateProc
    /\ pc[p] = "idle"
    /\ LET g == fillHandler(context[p], node, handler[p])
       IN /\ gate' = [gate EXCEPT ![p] = g.error]
          /\ handler' = [handler EXCEPT ![p] = g.result]
    /\ queried' = [queried EXCEPT ![p] = gateQueries(context[p], node)]
    /\ pc' = [pc EXCEPT ![p] = "filled"]
    /\ UNCHANGED <<asked, node, context, caller, result, ret, curId, requestId,
                   perfLog, loadEvent, invoked, nreq>>

NextGate == \E p \in Procs : FillHandlerCall(p)

SpecGate == InitGate /\ [][NextGate]_vars

\* ------------------------------------------------------------------------
\* PerfLog and the handler method (collaborators of callMethod)
\* ------------------------------------------------------------------------
\* rpcStart / rpcFinish / rpcError (name, id): the notification is recorded
\* under the request id
notify(log, kind, name, id) ==
    [log EXCEPT ![id] = Append(@, <<kind, name>>)]

\* what a handler method may leave in the output buffer
HandlerOutputs ==
    {objectValue,
     JsonObject([ledger_index |-> JsonString("10300865")]),
     JsonObject([status |-> JsonString("handler")])}

\* a handler method that returns: its Status and what it wrote
HandlerReturns ==
    [status : {rpcSUCCESS}, wrote : HandlerOutputs] \cup
    {[status |-> rpcINVALID_PARAMS,
      wrote |-> inject_error(rpcINVALID_PARAMS, objectValue)]}

\* the members of `wrote` assigned into the buffer
populate(buffer, wrote) ==
    JsonObject([k \in (DOMAIN buffer.mem) \cup (DOMAIN wrote.mem) |->
                   IF k \in DOMAIN wrote.mem THEN wrote.mem[k]
                   ELSE buffer.mem[k]])

\* ------------------------------------------------------------------------
\* callMethod (context, method, name, result): the invocation wrapper
\* ------------------------------------------------------------------------
\* variant: the counter is read but the increment is lost
CallMethodEnter_NoIncrement(p) ==
    /\ pc[p] = "call"
    /\ requestId' = requestId
    /\ curId' = [curId EXCEPT ![p] = requestId + 1]
    /\ pc' = [pc EXCEPT ![p] = "start"]
    /\ UNCHANGED <<asked, queried, node, context, caller, handler, gate, result, ret,
                   perfLog, loadEvent, invoked, nreq>>

\* std::uint64_t const curId = ++requestId  (one atomic read-modify-write)
CallMethodEnter(p) ==
    /\ pc[p] = "call"
    /\ requestId' = requestId + 1
    /\ curId' = [curId EXCEPT ![p] = requestId + 1]
    /\ pc' = [pc EXCEPT ![p] = "start"]
    /\ UNCHANGED <<asked, queried, node, context, caller, handler, gate, result, ret,
                   perfLog, loadEvent, invoked, nreq>>

\* perfLog.rpcStart (name, curId); auto v = makeLoadEvent (...)
CallMethodStart(p) ==
    /\ pc[p] = "start"
    /\ perfLog' = notify(perfLog, "start", handler[p], curId[p])
    /\ loadEvent' = [loadEvent EXCEPT ![p] = TRUE]
    /\ pc' = [pc EXCEPT ![p] = "method"]
    /\ UNCHANGED <<asked, queried, node, context, caller, handler, gate, result, ret, curId,
                   requestId, invoked, nreq>>

\* where control goes when callMethod returns a Status
afterCall(p) == IF caller[p] = "getResult" THEN "returned" ELSE "done"

\* variant: the normal return forgets rpcFinish
CallMethodReturn_NoFinish(p) ==
    /\ pc[p] = "method"
    /\ \E r \in HandlerReturns :
          /\ result' = [result EXCEPT ![p] = populate(@, r.wrote)]
          /\ invoked' = [invoked EXCEPT ![p] =
                            [calls |-> @.calls + 1, wrote |-> r.wrote,
                             outcome |-> "returned",
                             status |-> r.status]]
          /\ ret' = [ret EXCEPT ![p] = r.status]
    /\ loadEvent' = [loadEvent EXCEPT ![p] = FALSE]
    /\ pc' = [pc EXCEPT ![p] = afterCall(p)]
    /\ UNCHANGED <<asked, queried, node, context, caller, handler, gate, curId, requestId,
                   perfLog, nreq>>

\* the method returns: rpcFinish, the LoadEvent goes out of scope, the
\* method's Status is returned
CallMethodReturn(p) ==
    /\ pc[p] = "method"
    /\ \E r \in HandlerReturns :
          /\ result' = [result EXCEPT ![p] = populate(@, r.wrote)]
          /\ invoked' = [invoked EXCEPT ![p] =
                            [calls |-> @.calls + 1, wrote |-> r.wrote,
                             outcome |-> "returned",
                             status |-> r.status]]
          /\ ret' = [ret EXCEPT ![p] = r.status]
    /\ perfLog' = notify(perfLog, "finish", handler[p], curId[p])
    /\ loadEvent' = [loadEvent EXCEPT ![p] = FALSE]
    /\ pc' = [pc EXCEPT ![p] = afterCall(p)]
    /\ UNCHANGED <<asked, queried, node, context, caller, handler, gate, curId, requestId,
                   nreq>>

\* variant: the catch clause forgets inject_error
CallMethodCatch_NoInject(p) ==
    /\ pc[p] = "method"
    /\ \E w \in HandlerOutputs :
          /\ result' = [result EXCEPT ![p] = populate(@, w)]
          /\ invoked' = [invoked EXCEPT ![p] =
                            [calls |-> @.calls + 1, wrote |-> w,
                             outcome |-> "std::exception",
                             status |-> NoStatus]]
    /\ perfLog' = notify(perfLog, "error", handler[p], curId[p])
    /\ context' = [context EXCEPT ![p].loadType =
                      IF @ = "feeReferenceRPC" THEN "feeExceptionRPC" ELSE @]
    /\ loadEvent' = [loadEvent EXCEPT ![p] = FALSE]
    /\ ret' = [ret EXCEPT ![p] = rpcINTERNAL]
    /\ pc' = [pc EXCEPT ![p] = afterCall(p)]
    /\ UNCHANGED <<asked, queried, node, caller, handler, gate, curId, requestId, nreq>>

\* variant: the catch clause escalates the load type whatever it was
CallMethodCatch_AlwaysEscalates(p) ==
    /\ pc[p] = "method"
    /\ \E w \in HandlerOutputs :
          /\ result' = [result EXCEPT ![p] =
                           inject_error(rpcINTERNAL, populate(@, w))]
          /\ invoked' = [invoked EXCEPT ![p] =
                            [calls |-> @.calls + 1, wrote |-> w,
                             outcome |-> "std::exception",
                             status |-> NoStatus]]
    /\ perfLog' = notify(perfLog, "error", handler[p], curId[p])
    /\ context' = [context EXCEPT ![p].loadType = "feeExceptionRPC"]
    /\ loadEvent' = [loadEvent EXCEPT ![p] = FALSE]
    /\ ret' = [ret EXCEPT ![p] = rpcINTERNAL]
    /\ pc' = [pc EXCEPT ![p] = afterCall(p)]
    /\ UNCHANGED <<asked, queried, node, caller, handler, gate, curId, requestId, nreq>>

\* the method throws a std::exception: the catch clause runs
CallMethodCatch(p) ==
    /\ pc[p] = "method"
    /\ \E w \in HandlerOutputs :
          /\ result' = [result EXCEPT ![p] =
                           inject_error(rpcINTERNAL, populate(@, w))]
          /\ invoked' = [invoked EXCEPT ![p] =
                            [calls |-> @.calls + 1, wrote |-> w,
                             outcome |-> "std::exception",
                             status |-> NoStatus]]
    /\ perfLog' = notify(perfLog, "error", handler[p], curId[p])
    /\ context' = [context EXCEPT ![p].loadType =
                      IF @ = "feeReferenceRPC" THEN "feeExceptionRPC" ELSE @]
    /\ loadEvent' = [loadEvent EXCEPT ![p] = FALSE]
    /\ ret' = [ret EXCEPT ![p] = rpcINTERNAL]
    /\ pc' = [pc EXCEPT ![p] = afterCall(p)]
    /\ UNCHANGED <<asked, queried, node, caller, handler, gate, curId, requestId, nreq>>

\* variant: the LoadEvent is released by hand on the paths that return, so
\* that an exception passing through leaves it held
CallMethodUnwind_KeepsToken(p) ==
    /\ pc[p] = "method"
    /\ \E w \in HandlerOutputs :
          /\ result' = [result EXCEPT ![p] = populate(@, w)]
          /\ invoked' = [invoked EXCEPT ![p] =
                            [calls |-> @.calls + 1, wrote |-> w,
                             outcome |-> "other exception",
                             status |-> NoStatus]]
    /\ loadEvent' = loadEvent
    /\ pc' = [pc EXCEPT ![p] = "thrown"]
    /\ UNCHANGED <<asked, queried, node, context, caller, handler, gate, ret, curId,
                   requestId, perfLog, nreq>>

\* the method throws something that is not a std::exception: no catch
\* clause matches, the stack unwinds through callMethod and its caller
CallMethodUnwind(p) ==
    /\ pc[p] = "method"
    /\ \E w \in HandlerOutputs :
          /\ result' = [result EXCEPT ![p] = populate(@, w)]
          /\ invoked' = [invoked EXCEPT ![p] =
                            [calls |-> @.calls + 1, wrote |-> w,
                             outcome |-> "other exception",
                             status |-> NoStatus]]
    /\ loadEvent' = [loadEvent EXCEPT ![p] = FALSE]
    /\ pc' = [pc EXCEPT ![p] = "thrown"]
    /\ UNCHANGED <<asked, queried, node, context, caller, handler, gate, ret, curId,
                   requestId, perfLog, nreq>>

CallMethod(p) ==
    \/ CallMethodEnter(p)
    \/ CallMethodStart(p)
    \/ CallMethodReturn(p)
    \/ CallMethodCatch(p)
    \/ CallMethodUnwind(p)

\* ------------------------------------------------------------------------
\* doCommand (context, result): the dispatcher
\* ------------------------------------------------------------------------
DispatchRoles == {"GUEST", "ADMIN"}

DispatchParams ==
    {CommandParams("h_all", Absent), CommandParams("adm_none", Absent),
     CommandParams("novalue", Absent), CommandParams(Absent, Absent)}

DispatchContexts ==
    [role : DispatchRoles, params : DispatchParams,
     loadType : {"feeReferenceRPC"}]

DispatchNodes ==
    {HealthyNode,
     [HealthyNode EXCEPT !.jobCount = maxJobQueueClients + 1],
     [HealthyNode EXCEPT !.amendmentBlocked = TRUE]}

\* variant: the wrapper is entered although fillHandler returned an error
dispatch_CallAnyway(g) ==
    IF g.error # rpcSUCCESS
    THEN [pc |-> "call", ret |-> g.error,
          result |-> inject_error(g.error, objectValue)]
    ELSE IF Registry[g.result].valueMethod_
    THEN [pc |-> "call", ret |-> NoStatus, result |-> objectValue]
    ELSE [pc |-> "done", ret |-> rpcUNKNOWN_COMMAND, result |-> objectValue]

\* doCommand after fillHandler returned g: where it goes, what it returns
\* and what the output object holds
dispatch(g) ==
    IF g.error # rpcSUCCESS
    THEN [pc |-> "done", ret |-> g.error,
          result |-> inject_error(g.error, objectValue)]
    ELSE IF Registry[g.result].valueMethod_
    THEN [pc |-> "call", ret |-> NoStatus, result |-> objectValue]
    ELSE [pc |-> "done", ret |-> rpcUNKNOWN_COMMAND, result |-> objectValue]

\* doCommand on context c up to the point where it returns or enters
\* callMethod
Dispatching(p, c) ==
    LET g == fillHandler(c, node, NullHandler)
        d == dispatch(g)
    IN /\ context' = [context EXCEPT ![p] = c]
       /\ gate' = [gate EXCEPT ![p] = g.error]
       /\ handler' = [handler EXCEPT ![p] = g.result]
       /\ result' = [result EXCEPT ![p] = d.result]
       /\ ret' = [ret EXCEPT ![p] = d.ret]
       /\ pc' = [pc EXCEPT ![p] = d.pc]
       /\ queried' = [queried EXCEPT ![p] = gateQueries(c, node)]

\* doCommand called with one of the contexts in C
DoCommandWith(p, C) ==
    /\ pc[p] = "idle"
    /\ nreq < MaxRequests
    /\ nreq' = nreq + 1
    /\ caller' = [caller EXCEPT ![p] = "doCommand"]
    /\ \E c \in C : Dispatching(p, c)
    /\ UNCHANGED <<asked, node, curId, requestId, perfLog, loadEvent, invoked>>

DoCommand(p) == DoCommandWith(p, DispatchContexts)

\* the worker takes up the next request
NextRequest(p) ==
    /\ pc[p] \in {"done", "thrown"}
    /\ nreq < MaxRequests
    /\ pc' = [pc EXCEPT ![p] = "idle"]
    /\ context' = [context EXCEPT ![p] = NoContext]
    /\ caller' = [caller EXCEPT ![p] = "none"]
    /\ handler' = [handler EXCEPT ![p] = NullHandler]
    /\ gate' = [gate EXCEPT ![p] = NoStatus]
    /\ result' = [result EXCEPT ![p] = objectValue]
    /\ ret' = [ret EXCEPT ![p] = NoStatus]
    /\ curId' = [curId EXCEPT ![p] = 0]
    /\ invoked' = [invoked EXCEPT ![p] = NotInvoked]
    /\ queried' = [queried EXCEPT ![p] = <<>>]
    /\ UNCHANGED <<asked, node, requestId, perfLog, loadEvent, nreq>>

Init ==
    /\ InitIdle
    /\ node \in DispatchNodes
    /\ context = [p \in Procs |-> NoContext]

Next ==
    \E p \in Procs :
        \/ DoCommand(p)
        \/ CallMethod(p)
        \/ NextRequest(p)

Spec == Init /\ [][Next]_vars

\* ------------------------------------------------------------------------
\* roleRequired, called by the transports at any time
\* ------------------------------------------------------------------------
\* variant: an unknown command is open to every caller
roleRequired_UnknownIsGuest(method) ==
    LET h == getHandler(method)
    IN IF h = NullHandler THEN "GUEST" ELSE Registry[h].role_

roleRequired(method) ==
    LET h == getHandler(method)
    IN IF h = NullHandler THEN "FORBID" ELSE Registry[h].role_

RoleQueries == {"h_none", "adm_all", "nope"}

RoleRequired ==
    /\ asked.calls < MaxRequests
    /\ \E m \in RoleQueries :
          asked' = [method |-> m, role |-> roleRequired(m),
                    calls |-> asked.calls + 1]
    /\ UNCHANGED <<node, context, pc, caller, handler, gate, result, ret,
                   curId, requestId, perfLog, loadEvent, invoked, nreq,
                   queried>>

RoleContexts ==
    [role : {"GUEST"},
     params : {CommandParams("h_all", Absent), CommandParams("adm_none", Absent)},
     loadType : {"feeReferenceRPC"}]

InitRole ==
    /\ InitIdle
    /\ node = HealthyNode
    /\ context = [p \in Procs |-> NoContext]

NextRole ==
    \/ RoleRequired
    \/ \E p \in Procs :
          \/ DoCommandWith(p, RoleContexts)
          \/ CallMethod(p)
          \/ NextRequest(p)

SpecRole == InitRole /\ [][NextRole]_vars

\* ------------------------------------------------------------------------
\* The load type across calls: requests arrive with different load types,
\* and a caller may run doCommand again on the context of a finished call.
\* ------------------------------------------------------------------------
LoadTypes == {"feeReferenceRPC", "feeMediumBurdenRPC"}

LoadContexts ==
    [role : {"GUEST"}, params : {CommandParams("h_all", Absent)},
     loadType : LoadTypes]

\* doCommand called again with the context the previous call left
DoCommandAgain(p) ==
    /\ pc[p] \in {"done", "thrown"}
    /\ caller[p] = "doCommand"
    /\ nreq < MaxRequests
    /\ nreq' = nreq + 1
    /\ Dispatching(p, context[p])
    /\ curId' = [curId EXCEPT ![p] = 0]
    /\ invoked' = [invoked EXCEPT ![p] = NotInvoked]
    /\ UNCHANGED <<asked, node, caller, requestId, perfLog, loadEvent>>

InitLoad ==
    /\ InitIdle
    /\ node = HealthyNode
    /\ context = [p \in Procs |-> NoContext]

NextLoad ==
    \E p \in Procs :
        \/ DoCommandWith(p, LoadContexts)
        \/ DoCommandAgain(p)
        \/ CallMethod(p)

SpecLoad == InitLoad /\ [][NextLoad]_vars

\* ------------------------------------------------------------------------
\* getResult (context, method, object, name): the result envelope builder
\* ------------------------------------------------------------------------
Masked == "<masked>"

SecretFields == {"passphrase", "secret", "seed", "seed_hex"}

\* variant: seed_hex is left out of the masked members
maskedRequest_MissesSeedHex(params) ==
    IF isObject(params)
    THEN JsonObject([k \in DOMAIN params.mem |->
                        IF k \in {"passphrase", "secret", "seed"}
                        THEN JsonString(Masked)
                        ELSE params.mem[k]])
    ELSE params

\* variant: secret members of nested objects are masked as well
maskedRequest_Deep(params) ==
    IF isObject(params)
    THEN JsonObject([k \in DOMAIN params.mem |->
                        IF k \in SecretFields THEN JsonString(Masked)
                        ELSE IF isObject(params.mem[k])
                        THEN JsonObject([j \in DOMAIN params.mem[k].mem |->
                                 IF j \in SecretFields THEN JsonString(Masked)
                                 ELSE params.mem[k].mem[j]])
                        ELSE params.mem[k]])
    ELSE params

\* auto rq = context.params with the secret members of an object overwritten
maskedRequest(params) ==
    IF isObject(params)
    THEN JsonObject([k \in DOMAIN params.mem |->
                        IF k \in SecretFields THEN JsonString(Masked)
                        ELSE params.mem[k]])
    ELSE params

\* variant: doCommand's output is wrapped under "result" as well
outerObject_Nested(p) == JsonObject([result |-> result[p]])

\* the object handed back to the caller: getResult's `object` holds the
\* buffer under "result", doCommand's output object is the buffer itself
outerObject(p) ==
    IF caller[p] = "getResult"
    THEN JsonObject([result |-> result[p]])
    ELSE result[p]

SecretSets == {{}} \cup {{f} : f \in SecretFields} \cup {SecretFields}
SecretValues == {"s1", "s2"}

\* a request carrying value v in the fields S and, when nested, an object
\* with a secret member of its own
EnvelopeRequest(S, v, nested) ==
    JsonObject([k \in {"command"} \cup S \cup
                      (IF nested THEN {"tx_json"} ELSE {}) |->
                   IF k = "command" THEN JsonString("h_none")
                   ELSE IF k = "tx_json"
                   THEN JsonObject([secret |-> JsonString("nested")])
                   ELSE JsonString(v)])

EnvelopeParams ==
    {EnvelopeRequest(S, v, nested) :
        S \in SecretSets, v \in SecretValues, nested \in BOOLEAN}
    \cup {JsonNull}

EnvelopeContexts ==
    [role : {"USER"}, params : EnvelopeParams, loadType : {"feeReferenceRPC"}]

EnvelopeProcs == {p \in Procs : p <= 2}

\* auto&& result = Json::addObject (object, jss::result), then callMethod
GetResult(p) ==
    /\ p \in EnvelopeProcs
    /\ pc[p] = "idle"
    /\ nreq < MaxRequests
    /\ nreq' = nreq + 1
    /\ caller' = [caller EXCEPT ![p] = "getResult"]
    /\ \E c \in EnvelopeContexts : context' = [context EXCEPT ![p] = c]
    /\ handler' = [handler EXCEPT ![p] = "h_none"]
    /\ result' = [result EXCEPT ![p] = objectValue]
    /\ pc' = [pc EXCEPT ![p] = "call"]
    /\ UNCHANGED <<asked, queried, node, gate, ret, curId, requestId, perfLog, loadEvent,
                   invoked>>

\* the branch on the Status that callMethod returned
GetResultFinish(p) ==
    /\ pc[p] = "returned"
    /\ caller[p] = "getResult"
    /\ result' = [result EXCEPT ![p] =
          IF IsError(ret[p])
          THEN setMember(setMember(@, "status", JsonString("error")),
                         "request", maskedRequest(context[p].params))
          ELSE setMember(@, "status", JsonString("success"))]
    /\ pc' = [pc EXCEPT ![p] = "done"]
    /\ UNCHANGED <<asked, queried, node, context, caller, handler, gate, ret, curId,
                   requestId, perfLog, loadEvent, invoked, nreq>>

InitEnvelope ==
    /\ InitIdle
    /\ node = HealthyNode
    /\ context = [p \in Procs |-> NoContext]

NextEnvelope ==
    \E p \in Procs :
        \/ GetResult(p)
        \/ CallMethod(p)
        \/ GetResultFinish(p)

SpecEnvelope == InitEnvelope /\ [][NextEnvelope]_vars

\* ========================================================================
\* Properties of the admission gate (checked under SpecGate)
\* ========================================================================
\* the command name a request carries ("" when it carries none)
RequestedName(params) ==
    IF isMember(params, "command") THEN params.mem["command"].str
    ELSE IF isMember(params, "method") THEN params.mem["method"].str
    ELSE ""

\* the eight checks in their documented order: whether each one fails for
\* the request and the node, and the error it stands for
GateChecks(ctx, n) ==
    LET hasCommand == isMember(ctx.params, "command")
        hasMethod == isMember(ctx.params, "method")
        name == RequestedName(ctx.params)
        known == name \in HandlerNames
        cond == IF known THEN Registry[name].condition_ ELSE {}
    IN <<
      [fails |-> ctx.role \in {"GUEST", "USER"}
                 /\ n.jobCount > maxJobQueueClients,
       error |-> rpcTOO_BUSY],
      [fails |-> (~hasCommand /\ ~hasMethod)
                 \/ (hasCommand /\ hasMethod /\
                     ctx.params.mem["command"].str # ctx.params.mem["method"].str),
       error |-> IF ~hasCommand /\ ~hasMethod THEN rpcCOMMAND_MISSING
                 ELSE rpcUNKNOWN_COMMAND],
      [fails |-> ~known, error |-> rpcUNKNOWN_COMMAND],
      [fails |-> known /\ Registry[name].role_ = "ADMIN" /\ ctx.role # "ADMIN",
       error |-> rpcNO_PERMISSION],
      [fails |-> NEEDS_NETWORK_CONNECTION \in cond /\ n.operatingMode < omSYNCING,
       error |-> rpcNO_NETWORK],
      [fails |-> n.amendmentBlocked /\
                 cond \cap {NEEDS_CURRENT_LEDGER, NEEDS_CLOSED_LEDGER} # {},
       error |-> rpcAMENDMENT_BLOCKED],
      [fails |-> ~n.standalone /\ NEEDS_CURRENT_LEDGER \in cond /\
                 (n.validatedLedgerAge > maxValidatedLedgerAge \/
                  LedgerLags(n.currentLedgerIndex, n.validLedgerIndex)),
       error |-> rpcNO_CURRENT],
      [fails |-> NEEDS_CLOSED_LEDGER \in cond /\ ~n.closedLedger,
       error |-> rpcNO_CLOSED] >>

FailingChecks(ctx, n) ==
    {i \in DOMAIN GateChecks(ctx, n) : GateChecks(ctx, n)[i].fails}

FirstFailing(ctx, n) ==
    LET F == FailingChecks(ctx, n)
    IN IF F = {} THEN rpcSUCCESS
       ELSE GateChecks(ctx, n)[CHOOSE i \in F : \A j \in F : i <= j].error

GateDone == pc[GateProc] = "filled"

\* C1: fillHandler returns the error of the first failing check in the order
\* load, command extraction, lookup, role, network, amendment block,
\* current-ledger freshness, closed ledger; it returns success, together
\* with the resolved handler, exactly when no check fails.
C1_FirstFailingCheck ==
    GateDone =>
        /\ gate[GateProc] = FirstFailing(context[GateProc], node)
        /\ (gate[GateProc] = rpcSUCCESS <=>
               FailingChecks(context[GateProc], node) = {})
        /\ (gate[GateProc] = rpcSUCCESS =>
               handler[GateProc] = RequestedName(context[GateProc].params))
        /\ (gate[GateProc] # rpcSUCCESS => handler[GateProc] = NullHandler)

\* a request that fails the role, network, amendment, freshness and closed
\* ledger checks at once is answered with the role error
C1_Witness ==
    /\ GateDone
    /\ {4, 5, 6, 7, 8} \subseteq FailingChecks(context[GateProc], node)
    /\ gate[GateProc] = rpcNO_PERMISSION

\* C10: a caller that is not unlimited is answered rpcTOO_BUSY whenever the
\* pending client job count exceeds the threshold, whatever else the request
\* and the node hold; a count equal to the threshold does not shed.
C10_LoadShedding ==
    GateDone =>
        /\ (context[GateProc].role \in {"GUEST", "USER"}
            /\ node.jobCount > maxJobQueueClients
               => gate[GateProc] = rpcTOO_BUSY)
        /\ (node.jobCount = maxJobQueueClients => gate[GateProc] # rpcTOO_BUSY)

\* a guest without a command on a blocked node over the threshold is shed
C10_Witness ==
    /\ GateDone
    /\ context[GateProc].role = "GUEST"
    /\ node.jobCount = maxJobQueueClients + 1
    /\ node.amendmentBlocked
    /\ ~isMember(context[GateProc].params, "command")
    /\ ~isMember(context[GateProc].params, "method")
    /\ gate[GateProc] = rpcTOO_BUSY

\* ========================================================================
\* Properties of doCommand and callMethod (checked under Spec)
\* ========================================================================
ErrorKeys == {"error", "error_code", "error_message"}

\* the object carries the code, token and message of the error
CarriesError(obj, code) ==
    /\ ErrorKeys \subseteq DOMAIN obj.mem
    /\ obj.mem["error_code"].str = code
    /\ obj.mem["error"].str = ErrorToken(code)
    /\ obj.mem["error_message"].str = ErrorMessage(code)

GateFailed(p) ==
    caller[p] = "doCommand" /\ gate[p] \notin {NoStatus, rpcSUCCESS}

\* the request passed admission and its handler has a value method
Dispatched(p) ==
    /\ caller[p] = "doCommand"
    /\ gate[p] = rpcSUCCESS
    /\ Registry[handler[p]].valueMethod_

\* callMethod has been left, by a return or by an exception passing through
Exited(p) == curId[p] # 0 /\ pc[p] \in {"done", "returned", "thrown"}

C2_State ==
    \A p \in Procs :
        GateFailed(p) =>
            /\ pc[p] = "done"
            /\ curId[p] = 0
            /\ invoked[p] = NotInvoked
            /\ ~loadEvent[p]
            /\ DOMAIN result[p].mem = ErrorKeys
            /\ CarriesError(result[p], gate[p])
            /\ ret[p] = gate[p]

C2_Step ==
    \A p \in Procs :
        (pc[p] = "idle" /\ gate'[p] \notin {NoStatus, rpcSUCCESS}) =>
            /\ requestId' = requestId
            /\ perfLog' = perfLog
            /\ loadEvent' = loadEvent
            /\ invoked' = invoked

\* C2: when fillHandler returns an error, doCommand does not enter
\* callMethod: the handler method is not invoked, no request id is
\* allocated, nothing is notified to PerfLog, no LoadEvent is made; the
\* error is injected into the output object and is the Status returned.
C2_AdmissionFailureSkipsWrapper == []C2_State /\ [][C2_Step]_vars

\* a request refused for its role ends with the error in its output while
\* another request is inside its handler
C2_Witness ==
    \E p, q \in Procs :
        /\ GateFailed(p)
        /\ gate[p] = rpcNO_PERMISSION
        /\ pc[p] = "done"
        /\ pc[q] = "method"

WellFormedLog ==
    \A id \in RequestIds :
        LET e == perfLog[id]
        IN /\ Len(e) <= 2
           /\ Len(e) >= 1 => e[1][1] = "start"
           /\ Len(e) = 2 => e[2][1] \in {"finish", "error"} /\ e[2][2] = e[1][2]

C5_Unique ==
    \A p, q \in Procs :
        (p # q /\ curId[p] # 0 /\ curId[q] # 0) => curId[p] # curId[q]

C5_Step ==
    /\ requestId' >= requestId
    /\ \A p \in Procs :
          (curId'[p] # curId[p] /\ curId'[p] # 0) =>
              /\ curId'[p] = requestId'
              /\ curId'[p] > requestId
              /\ \A q \in Procs : curId'[p] > curId[q]

\* C5: under any interleaving no two calls of callMethod hold the same
\* request id, and every id handed out is larger than every id handed out
\* before it, whether or not the earlier calls failed.
C5_RequestIdsUniqueAndIncreasing == []C5_Unique /\ [][C5_Step]_vars

\* two requests are inside their handlers at once, each with its own id
C5_Witness ==
    \E p, q \in Procs :
        /\ p # q
        /\ pc[p] = "method" /\ pc[q] = "method"
        /\ curId[p] # 0 /\ curId[q] # 0
        /\ requestId = 2

C9_EveryFailureCarriesError ==
    \A p \in Procs :
        (caller[p] = "doCommand" /\ pc[p] = "done" /\ ret[p] # NoStatus
         /\ IsError(ret[p])) => CarriesError(result[p], ret[p])

\* ========================================================================
\* Properties of getResult (checked under SpecEnvelope)
\* ========================================================================
EnvelopeDone(p) == caller[p] = "getResult" /\ pc[p] = "done"

\* the echo of a request: members of the four names hold the mask, every
\* other member is the request's own
IsMaskedEcho(echo, params) ==
    IF params.kind = "object"
    THEN /\ echo.kind = "object"
         /\ DOMAIN echo.mem = DOMAIN params.mem
         /\ \A k \in DOMAIN params.mem :
               IF k \in {"passphrase", "secret", "seed", "seed_hex"}
               THEN echo.mem[k] = JsonString("<masked>")
               ELSE echo.mem[k] = params.mem[k]
    ELSE echo = params

\* what callMethod left in the buffer before getResult set the status
LeftByWrapper(p) ==
    IF invoked[p].outcome = "std::exception"
    THEN inject_error(rpcINTERNAL, invoked[p].wrote)
    ELSE invoked[p].wrote

C7_State ==
    \A p \in Procs :
        EnvelopeDone(p) =>
            LET r == result[p]
                b == LeftByWrapper(p)
            IN IF ret[p] = rpcSUCCESS
               THEN /\ r.mem["status"] = JsonString("success")
                    /\ DOMAIN r.mem = DOMAIN b.mem \cup {"status"}
                    /\ "request" \notin DOMAIN r.mem
                    /\ \A k \in DOMAIN b.mem \ {"status"} : r.mem[k] = b.mem[k]
               ELSE /\ r.mem["status"] = JsonString("error")
                    /\ DOMAIN r.mem = DOMAIN b.mem \cup {"status", "request"}
                    /\ IsMaskedEcho(r.mem["request"], context[p].params)
                    /\ \A k \in DOMAIN b.mem \ {"status"} : r.mem[k] = b.mem[k]

C7_Step ==
    \A p \in Procs :
        pc[p] # "idle" => context'[p].params = context[p].params

\* C7: when callMethod returns success, getResult sets result.status to
\* "success", adds no request member and leaves the other members as the
\* handler wrote them; when it returns an error, result.status is "error"
\* and result.request is the request with each top-level passphrase,
\* secret, seed and seed_hex replaced by the mask and every other member
\* unchanged; context.params is not modified.
C7_EnvelopeShape == []C7_State /\ [][C7_Step]_vars

\* one envelope built for a success, another for an error whose request
\* carried all four secret members and a nested object
C7_Witness ==
    \E p, q \in Procs :
        /\ EnvelopeDone(p) /\ ret[p] = rpcSUCCESS
        /\ result[p].mem["status"].str = "success"
        /\ EnvelopeDone(q) /\ ret[q] = rpcINVALID_PARAMS
        /\ SecretFields \cup {"tx_json"} \subseteq DOMAIN context[q].params.mem
        /\ result[q].mem["request"].mem["seed_hex"].str = Masked

\* the two requests differ at most in the values of their top-level secret
\* members
SameButSecrets(a, b) ==
    /\ a.kind = b.kind
    /\ DOMAIN a.mem = DOMAIN b.mem
    /\ \A k \in DOMAIN a.mem \ {"passphrase", "secret", "seed", "seed_hex"} :
          a.mem[k] = b.mem[k]

\* C8: two requests that differ only in the values of their top-level
\* passphrase, secret, seed or seed_hex members and both end in an error
\* get the same request echo; the value of such a member never appears in
\* the echo; members of those names inside a nested object are not masked.
C8_SecretsDoNotReachEcho ==
    \A p \in Procs :
        (EnvelopeDone(p) /\ IsError(ret[p])) =>
            LET echo == result[p].mem["request"]
                rq == context[p].params
            IN /\ \A q \in Procs :
                     (EnvelopeDone(q) /\ IsError(ret[q]) /\
                      SameButSecrets(rq, context[q].params))
                        => result[q].mem["request"] = echo
               /\ \A k \in DOMAIN rq.mem \cap SecretFields :
                     /\ echo.mem[k].str # rq.mem[k].str
                     /\ echo.mem[k].str \notin SecretValues
               /\ \A k \in DOMAIN rq.mem \ SecretFields :
                     \A j \in DOMAIN rq.mem[k].mem :
                        /\ j \in DOMAIN echo.mem[k].mem
                        /\ echo.mem[k].mem[j] = rq.mem[k].mem[j]

\* two failed requests with different secrets and a nested secret got the
\* same echo, in which the nested secret is still readable
C8_Witness ==
    \E p, q \in Procs :
        /\ EnvelopeDone(p) /\ IsError(ret[p])
        /\ EnvelopeDone(q) /\ IsError(ret[q])
        /\ isMember(context[p].params, "secret")
        /\ isMember(context[q].params, "secret")
        /\ isMember(context[p].params, "tx_json")
        /\ isMember(context[q].params, "tx_json")
        /\ context[p].params.mem["secret"] # context[q].params.mem["secret"]
        /\ result[p].mem["request"] = result[q].mem["request"]
        /\ result[p].mem["request"].mem["tx_json"].mem["secret"].str = "nested"

\* ========================================================================
\* Command extraction, role and freshness (checked under SpecGate)
\* ========================================================================
HasBoth(params) == isMember(params, "command") /\ isMember(params, "method")

HasNeither(params) == ~isMember(params, "command") /\ ~isMember(params, "method")

FieldsDiffer(params) ==
    HasBoth(params) /\ params.mem["command"].str # params.mem["method"].str

\* the caller is shed by the load check before anything else is looked at
ShedFirst(ctx, n) ==
    ctx.role \in {"GUEST", "USER"} /\ n.jobCount > maxJobQueueClients

\* the same request carrying only the field k of the two
OnlyField(ctx, k) ==
    [ctx EXCEPT !.params = JsonObject([x \in {k} |-> ctx.params.mem[k]])]

\* the statement of C11 as the documentation has it: a request whose command
\* and method fields differ is always answered rpcUNKNOWN_COMMAND
C11_DifferingFieldsAlwaysUnknown ==
    GateDone /\ FieldsDiffer(context[GateProc].params)
        => gate[GateProc] = rpcUNKNOWN_COMMAND

\* C11: a request whose command and method fields differ is answered
\* rpcUNKNOWN_COMMAND unless the load check sheds it first, in which case it
\* is answered rpcTOO_BUSY; when the two fields are equal the gate answers
\* exactly as it does for the request carrying only one of them.
C11_DifferingFieldsUnknownUnlessShed ==
    GateDone =>
        LET ctx == context[GateProc]
        IN /\ (FieldsDiffer(ctx.params) =>
                  gate[GateProc] = IF ShedFirst(ctx, node) THEN rpcTOO_BUSY
                                   ELSE rpcUNKNOWN_COMMAND)
           /\ (HasBoth(ctx.params) /\ ~FieldsDiffer(ctx.params) =>
                  \A k \in {"command", "method"} :
                     LET one == fillHandler(OnlyField(ctx, k), node, NullHandler)
                     IN /\ gate[GateProc] = one.error
                        /\ handler[GateProc] = one.result)

\* an administrator naming two different known handlers in the two fields is
\* answered rpcUNKNOWN_COMMAND
C11_Witness ==
    /\ GateDone
    /\ context[GateProc].role = "ADMIN"
    /\ FieldsDiffer(context[GateProc].params)
    /\ context[GateProc].params.mem["command"].str = "adm_all"
    /\ context[GateProc].params.mem["method"].str = "h_none"
    /\ gate[GateProc] = rpcUNKNOWN_COMMAND

\* the statement of C12 as the documentation has it: a request carrying
\* neither field is always answered rpcCOMMAND_MISSING
C12_NeitherFieldAlwaysMissing ==
    GateDone /\ HasNeither(context[GateProc].params)
        => gate[GateProc] = rpcCOMMAND_MISSING

\* C12: a request carrying neither a command nor a method field is answered
\* rpcCOMMAND_MISSING unless the load check sheds it first (rpcTOO_BUSY);
\* no handler is resolved in either case.
C12_NeitherFieldMissingUnlessShed ==
    GateDone /\ HasNeither(context[GateProc].params) =>
        /\ gate[GateProc] = IF ShedFirst(context[GateProc], node)
                            THEN rpcTOO_BUSY ELSE rpcCOMMAND_MISSING
        /\ handler[GateProc] = NullHandler

\* an identified caller over the load threshold, on a node that is amendment
\* blocked and disconnected, sends no command and is told so
C12_Witness ==
    /\ GateDone
    /\ context[GateProc].role = "IDENTIFIED"
    /\ node.jobCount > maxJobQueueClients
    /\ node.amendmentBlocked
    /\ node.operatingMode < omSYNCING
    /\ HasNeither(context[GateProc].params)
    /\ gate[GateProc] = rpcCOMMAND_MISSING

\* the request names exactly one command and the registry resolves it
Resolves(params) ==
    /\ ~HasNeither(params)
    /\ ~FieldsDiffer(params)
    /\ RequestedName(params) \in HandlerNames

\* the request names a handler that only an administrator may call, and the
\* caller is not one
AdminOnlyDenied(ctx) ==
    /\ Resolves(ctx.params)
    /\ Registry[RequestedName(ctx.params)].role_ = "ADMIN"
    /\ ctx.role # "ADMIN"

\* the statement of C13 as the documentation has it: such a caller is always
\* answered rpcNO_PERMISSION
C13_AdminOnlyAlwaysDenied ==
    GateDone /\ AdminOnlyDenied(context[GateProc])
        => gate[GateProc] = rpcNO_PERMISSION

\* C13: a caller that is not an administrator and names a handler requiring
\* the administrator role is answered rpcNO_PERMISSION whatever the sync
\* mode, the amendment-block state and the ledger state are, unless the load
\* check sheds the request first (rpcTOO_BUSY); no handler is handed out.
C13_AdminOnlyDeniedUnlessShed ==
    GateDone /\ AdminOnlyDenied(context[GateProc]) =>
        /\ gate[GateProc] = IF ShedFirst(context[GateProc], node)
                            THEN rpcTOO_BUSY ELSE rpcNO_PERMISSION
        /\ handler[GateProc] = NullHandler

\* an identified caller asks for an administrator handler that needs network,
\* current and closed ledger on a node that fails all of those checks
C13_Witness ==
    /\ GateDone
    /\ context[GateProc].role = "IDENTIFIED"
    /\ Resolves(context[GateProc].params)
    /\ RequestedName(context[GateProc].params) = "adm_all"
    /\ node.jobCount > maxJobQueueClients
    /\ node.operatingMode < omSYNCING
    /\ node.amendmentBlocked
    /\ ~node.standalone
    /\ node.validatedLedgerAge > maxValidatedLedgerAge
    /\ ~node.closedLedger
    /\ gate[GateProc] = rpcNO_PERMISSION

\* cID + 10 without the 32-bit wrap (the high half may leave the range)
Plus10(cID) ==
    <<cID[1] + ((cID[2] + 10) \div Half), (cID[2] + 10) % Half>>

\* vID - cID > 10 over the integers
TrailsByMoreThan10(cID, vID) == U32Less(Plus10(cID), vID)

\* the request reaches the freshness check of a handler that needs a current
\* ledger: checks 1 to 6 do not fail
ReachesFreshness(ctx, n) ==
    /\ Resolves(ctx.params)
    /\ NEEDS_CURRENT_LEDGER \in Registry[RequestedName(ctx.params)].condition_
    /\ FailingChecks(ctx, n) \cap (1..6) = {}

\* the statement of C14 as the documentation has it: in every node
\* configuration such a request is answered rpcNO_CURRENT when the current
\* ledger trails the validated one by more than 10
C14_LagAlwaysNoCurrent ==
    GateDone /\ ReachesFreshness(context[GateProc], node)
             /\ TrailsByMoreThan10(node.currentLedgerIndex, node.validLedgerIndex)
        => gate[GateProc] = rpcNO_CURRENT

\* C14: a request for a handler that needs a current ledger and has passed
\* the load, command, lookup, role, network and amendment checks is answered
\* rpcNO_CURRENT when the current ledger trails the validated one by more
\* than 10, on every node that is not standalone; a standalone node skips
\* the test and never answers rpcNO_CURRENT.
C14_LagNoCurrentUnlessStandalone ==
    GateDone /\ ReachesFreshness(context[GateProc], node)
             /\ TrailsByMoreThan10(node.currentLedgerIndex, node.validLedgerIndex)
        => IF node.standalone THEN gate[GateProc] # rpcNO_CURRENT
           ELSE gate[GateProc] = rpcNO_CURRENT

\* a synced, unblocked node with a fresh validated ledger and a closed ledger
\* lags by 11 and refuses a handler that needs a current ledger
C14_Witness ==
    /\ GateDone
    /\ ReachesFreshness(context[GateProc], node)
    /\ ~node.standalone
    /\ node.operatingMode = omSYNCING
    /\ node.validatedLedgerAge = maxValidatedLedgerAge
    /\ node.closedLedger
    /\ node.currentLedgerIndex = <<0, 0>>
    /\ node.validLedgerIndex = <<0, 11>>
    /\ gate[GateProc] = rpcNO_CURRENT

\* the request reaches the amendment check: checks 1 to 5 do not fail
ReachesAmendment(ctx, n) ==
    Resolves(ctx.params) /\ FailingChecks(ctx, n) \cap (1..5) = {}

ConditionOf(ctx) == Registry[RequestedName(ctx.params)].condition_

\* standalone mode skips the freshness test only
C19_StandaloneSkipsFreshnessOnly ==
    GateDone /\ node.standalone =>
        LET ctx == context[GateProc]
        IN /\ gate[GateProc] # rpcNO_CURRENT
           /\ (ReachesAmendment(ctx, node) /\ node.amendmentBlocked
               /\ ConditionOf(ctx) \cap
                     {NEEDS_CURRENT_LEDGER, NEEDS_CLOSED_LEDGER} # {}
                  => gate[GateProc] = rpcAMENDMENT_BLOCKED)
           /\ (ReachesAmendment(ctx, node) /\ ~node.amendmentBlocked
               /\ NEEDS_CLOSED_LEDGER \in ConditionOf(ctx)
                  => (gate[GateProc] = rpcNO_CLOSED <=> ~node.closedLedger))

\* outside standalone mode the freshness test answers rpcNO_CURRENT exactly
\* when the validated ledger is too old or the current ledger trails the
\* validated one by more than 10 over the integers
C19_FreshnessExact ==
    GateDone /\ ~node.standalone /\ ReachesFreshness(context[GateProc], node) =>
        (gate[GateProc] = rpcNO_CURRENT <=>
            \/ node.validatedLedgerAge > maxValidatedLedgerAge
            \/ TrailsByMoreThan10(node.currentLedgerIndex, node.validLedgerIndex))

\* C19: a standalone node never answers rpcNO_CURRENT and still enforces the
\* amendment-block and closed-ledger checks; outside standalone mode a
\* request that reaches the freshness check is answered rpcNO_CURRENT if and
\* only if the validated-ledger age exceeds the maximum or the current index
\* trails the validated index by more than 10.
C19_StandaloneAndFreshness ==
    C19_StandaloneSkipsFreshnessOnly /\ C19_FreshnessExact

\* C20: for all 32-bit ledger indices the lag test as the code computes it
\* (cID + 10 < vID with the sum taken modulo 2^32) agrees with the condition
\* vID - cID > 10 over the integers, so that no wrap of the sum makes a
\* healthy node answer rpcNO_CURRENT or a lagging node pass.
C20_LagTestIsMathematical ==
    GateDone =>
        /\ (LedgerLags(node.currentLedgerIndex, node.validLedgerIndex) <=>
               TrailsByMoreThan10(node.currentLedgerIndex, node.validLedgerIndex))
        /\ (gate[GateProc] = rpcNO_CURRENT
            /\ node.validatedLedgerAge <= maxValidatedLedgerAge
               => TrailsByMoreThan10(node.currentLedgerIndex,
                                     node.validLedgerIndex))

\* ========================================================================
\* What a failing gate leaves behind (checked under SpecGate)
\* ========================================================================
\* the check (1 to 8, in the documented order) a collaborator getter serves
CheckOf(getter) ==
    CASE getter = "getJobCountGE" -> 1
      [] getter = "getHandler" -> 3
      [] getter \in {"getOperatingMode", "strOperatingMode"} -> 5
      [] getter = "isAmendmentBlocked" -> 6
      [] getter \in {"standalone", "getValidatedLedgerAge",
                     "getCurrentLedgerIndex", "getValidLedgerIndex"} -> 7
      [] getter = "getClosedLedger" -> 8

\* the first check that fails for the request and the node
FirstFailingIndex(ctx, n) ==
    CHOOSE i \in FailingChecks(ctx, n) : \A j \in FailingChecks(ctx, n) : i <= j

Queried(p) == {queried[p][i] : i \in DOMAIN queried[p]}

C18_State ==
    GateDone /\ gate[GateProc] # rpcSUCCESS =>
        /\ handler[GateProc] = NullHandler
        /\ \A g \in Queried(GateProc) :
              CheckOf(g) <= FirstFailingIndex(context[GateProc], node)
        /\ (gate[GateProc] \in {rpcTOO_BUSY, rpcCOMMAND_MISSING,
                                rpcUNKNOWN_COMMAND, rpcNO_PERMISSION}
               => Queried(GateProc) \subseteq {"getJobCountGE", "getHandler"})

C18_Step ==
    pc[GateProc] = "idle" /\ pc'[GateProc] = "filled" =>
        /\ context' = context
        /\ result' = result
        /\ node' = node
        /\ (gate'[GateProc] # rpcSUCCESS => handler' = handler)

\* C18: when fillHandler fails at some check the handler reference is left
\* as it was (unset), the request context (parameters, role, load
\* classification) and the output object are unchanged, and no getter that
\* serves a later check has been called: in particular neither the sync mode
\* nor any ledger state is read when the answer is rpcTOO_BUSY,
\* rpcCOMMAND_MISSING, rpcUNKNOWN_COMMAND or rpcNO_PERMISSION.
C18_FailedGateLeavesNothing == []C18_State /\ [][C18_Step]_vars

\* a guest under the load threshold is refused on an amendment-blocked node
\* that is also stale and has no closed ledger: the gate has read the job
\* count, the registry, the sync mode and the amendment state and nothing
\* of the ledger
C18_Witness ==
    /\ GateDone
    /\ context[GateProc].role = "GUEST"
    /\ gate[GateProc] = rpcAMENDMENT_BLOCKED
    /\ ~node.standalone
    /\ node.validatedLedgerAge > maxValidatedLedgerAge
    /\ ~node.closedLedger
    /\ handler[GateProc] = NullHandler
    /\ queried[GateProc] = <<"getJobCountGE", "getHandler",
                             "getOperatingMode", "isAmendmentBlocked">>

\* ========================================================================
\* Properties of roleRequired (checked under SpecRole)
\* ========================================================================
C15_State ==
    asked.calls > 0 =>
        /\ (asked.role = "FORBID" <=> asked.method \notin HandlerNames)
        /\ (asked.method \in HandlerNames
               => asked.role = Registry[asked.method].role_)

C15_Step ==
    asked' # asked =>
        /\ UNCHANGED <<node, context, pc, caller, handler, gate, result, ret,
                       curId, requestId, perfLog, loadEvent, invoked, nreq,
                       queried>>
        /\ (asked.calls > 0 /\ asked'.method = asked.method
               => asked'.role = asked.role)

\* C15: roleRequired returns Role::FORBID exactly when the registry does not
\* resolve the name and the handler's role_ otherwise; a call changes no
\* state of the dispatcher, and a repeated call for the same name returns
\* the same role, whatever doCommand calls run in between.
C15_RoleRequiredIsALookup == []C15_State /\ [][C15_Step]_vars

\* roleRequired has been called at least twice, the latest call for an
\* unknown name, while one request is inside its handler and another has
\* been refused by the gate
C15_Witness ==
    /\ asked.calls >= 2
    /\ asked.method = "nope"
    /\ asked.role = "FORBID"
    /\ \E p, q \in Procs :
          /\ pc[p] = "method"
          /\ pc[q] = "done" /\ gate[q] = rpcNO_PERMISSION

\* ========================================================================
\* The load type and the Status across callMethod (checked under SpecLoad)
\* ========================================================================
\* the step in which the handler method of p returns or throws
MethodExit(p) == pc[p] = "method" /\ pc'[p] # "method"

Escalated(loadType) ==
    IF loadType = "feeReferenceRPC" THEN "feeExceptionRPC" ELSE loadType

\* the wrapper leaves the role and the parameters of the request alone
C16_Frame(p) ==
    /\ context'[p].role = context[p].role
    /\ context'[p].params = context[p].params

C16_Step ==
    \A p \in Procs : MethodExit(p) =>
        /\ C16_Frame(p)
        /\ invoked'[p].outcome = "std::exception" =>
              context'[p].loadType = Escalated(context[p].loadType)
        /\ invoked'[p].outcome = "other exception" =>
              context'[p].loadType = context[p].loadType
        /\ invoked'[p].outcome = "returned" =>
              /\ context'[p].loadType = context[p].loadType
              /\ ret'[p] = invoked'[p].status
              /\ ret'[p] \in {rpcSUCCESS, rpcINVALID_PARAMS}

Outstanding == {p \in Procs : loadEvent[p]}

\* C17: the LoadEvent acquired by callMethod is held while the handler
\* method runs and has been released when callMethod is left, whether the
\* method returned a Status, threw a std::exception or threw anything else;
\* once every call has finished no LoadEvent is outstanding.
C17_TokenHeldOnlyWhileHandlerRuns ==
    /\ \A p \in Procs : loadEvent[p] <=> pc[p] = "method"
    /\ (\A p \in Procs : pc[p] \in {"idle", "done", "thrown"})
          => Cardinality(Outstanding) = 0

\* one request is inside its handler and holds its LoadEvent while another
\* has left callMethod by an exception that is not a std::exception and
\* holds none
C17_Witness ==
    \E p, q \in Procs :
        /\ pc[p] = "method" /\ loadEvent[p]
        /\ pc[q] = "thrown" /\ invoked[q].outcome = "other exception"
        /\ ~loadEvent[q]
        /\ Outstanding = {p}

====
